---- MODULE Spec2Model ----
(***************************************************************************)
(* A model of the LinkedIn profile analyzer (src/app.py): the Apify job    *)
(* submitter start_apify_run, the poller / result fetcher                  *)
(* poll_apify_run_with_status, the posts scraper scrape_linkedin_posts,    *)
(* the sender and prospect handlers, the message tab, and the message      *)
(* generator analyze_and_generate_message.                                 *)
(*                                                                         *)
(* Every network call is one step: its response is chosen by the           *)
(* environment from the response sets below.  pc is the position of the    *)
(* single thread of control.                                               *)
(*                                                                         *)
(* SpecPoll is one invocation of the poller; FairSpecPoll adds that every  *)
(* request and sleep ends.  SpecApp is one script run: a session left by   *)
(* earlier runs, one click, and the handler that click starts.             *)
(* SpecMsg is one call of analyze_and_generate_message, its texts          *)
(* modelled by their lengths.  SpecUI is a sequence of script runs on the  *)
(* message tab, one action per click.  SpecPosts is one call of            *)
(* scrape_linkedin_posts on a response drawn from ScrapeResponses.         *)
(***************************************************************************)
EXTENDS Integers, Sequences, FiniteSets, TLC

\* ------------------------------------------------------------------ bounds
\* Longest dataset list the environment returns.
MaxItems == 2
\* The dataset-call counter saturates here: CallCap means "CallCap or more".
CallCap == 2
\* Most lines of a completion text the message parser is given.
MaxLines == 4

\* The most items in one posts response, and the latest timestamp.
MaxPosts == 3
MaxStamp == 2

\* ------------------------------------------------------- program constants
max_attempts == 60
poll_interval == 10
HTTP_CREATED == 201
HTTP_OK == 200
MIN_CHARS == 250
MAX_CHARS == 300

\* --------------------------------------------------------------- JSON data
\* A JSON value is a tagged record.  v is the size of a dict or a string (0 is
\* the empty one); None is JSON null / Python None.
None == [tag |-> "null", v |-> 0]
Items == { [tag |-> "dict", v |-> 1], [tag |-> "str", v |-> 1], None }

ItemLists == UNION { [1..n -> Items] : n \in 0..MaxItems }

\* What dataset_response.json() evaluates to: a list of items, an object, or a
\* scalar.  elems is <<>> unless tag = "list"; v is 0 unless tag = "dict".
DatasetBodies ==
    { [tag |-> "list", elems |-> l, v |-> 0] : l \in ItemLists }
    \cup { [tag |-> "dict", elems |-> <<>>, v |-> n] : n \in {0, 1} }
    \cup { [tag |-> "str", elems |-> <<>>, v |-> 0] }

NoBody == [tag |-> "none", elems |-> <<>>, v |-> 0]

\* A variant that takes every value for a payload.
Truthy_Always(x) == TRUE

\* Python truthiness of a JSON value.
Truthy(x) == x.tag # "null" /\ x.v > 0

\* ----------------------------------------------------------- HTTP responses
\* exc: requests raised (connection error, timeout).  shape: what the body is.
StatusNames ==
    {"RUNNING", "SUCCEEDED", "FAILED", "TIMED-OUT", "ABORTED", "TIMED_OUT", "READY"}

StatusResponses ==
    { [exc |-> TRUE, code |-> 0, shape |-> "none", status |-> "none"] }
    \cup { [exc |-> FALSE, code |-> c, shape |-> "none", status |-> "none"] :
              c \in {404, 500} }
    \cup { [exc |-> FALSE, code |-> HTTP_OK, shape |-> "ok", status |-> s] :
              s \in StatusNames }
    \cup { [exc |-> FALSE, code |-> HTTP_OK, shape |-> sh, status |-> "none"] :
              sh \in {"no_status", "no_data", "not_json"} }

DatasetResponses ==
    { [exc |-> TRUE, code |-> 0, body |-> NoBody] }
    \cup { [exc |-> FALSE, code |-> 500, body |-> NoBody] }
    \cup { [exc |-> FALSE, code |-> HTTP_OK, body |-> b] : b \in DatasetBodies }
    \* HTTP 200 whose body is not JSON: json() raises
    \cup { [exc |-> FALSE, code |-> HTTP_OK, body |-> NoBody] }

VARIABLES
    pc,             \* position of the thread of control
    attempt,        \* index of the poller's current iteration (= iterations ended)
    current_status, \* outcome of the status check of this iteration
    items,          \* body of the dataset retrieval of this iteration
    ret,            \* value the poller returned
    exit,           \* how the poller returned
    statusCalls,    \* status-check calls issued in this invocation
    datasetCalls,   \* dataset-retrieval calls issued (saturating at CallCap)
    unslept,        \* iterations that ended without a sleep (saturating at CallCap)
    gapSleeps,      \* sleeps executed since the latest status check
    emptySeen,      \* a retrieval of this invocation answered 200 with []
    onlyRunning,    \* every status check of this invocation reported RUNNING
    apify_api_key,  \* st.secrets "APIFY" ("" when absent)
    groq_api_key,   \* st.secrets "GROQ" ("" when absent)
    handler,        \* the handler this script run executes
    start_response, \* the response of the job-creation request
    run_info,       \* what start_apify_run returned
    createCalls,    \* job-creation requests issued in this script run
    postsCalls,     \* posts-scraper requests issued in this script run
    completionCalls, \* completion requests issued in this script run
    completion_response, \* the response of the latest completion request
    raised,         \* an exception escaped the handler and ended the script run
    sender_info,    \* st.session_state.sender_info
    sender_data,    \* st.session_state.sender_data
    sender_analyzing, \* st.session_state.sender_analyzing
    processing_status, \* st.session_state.processing_status
    profile_data,   \* st.session_state.profile_data
    research_brief, \* st.session_state.research_brief
    generated_messages, \* st.session_state.generated_messages
    current_message_index, \* st.session_state.current_message_index
    fields,         \* lengths of prospect_name, prospect_role, prospect_company
                    \* and sender_first_name in analyze_and_generate_message
    lines_read,     \* lines of the completion text the parser has consumed
    messages,       \* the parser's list messages
    current_option, \* the parser's current_option (0 for None)
    current_message, \* the parser's list current_message, joined
    validated_messages, \* lengths of the messages in validated_messages
    msg_result,     \* lengths of the messages the function returned
    regenerate_mode, \* st.session_state.regenerate_mode
    session0,       \* the stored results when the script run began
    origin,         \* which request stored profile_data and research_brief:
                    \* 0 none, 1 an earlier script run, 2 this script run
    posts_response, \* the response of the posts endpoint to scrape_linkedin_posts
    posts,          \* the posts the loop of line 123 has still to visit
    valid_posts,    \* the list valid_posts
    top_posts,      \* what scrape_linkedin_posts returned
    posts_error     \* the branch of scrape_linkedin_posts that reported an error

pollVars ==
    <<attempt, current_status, items, ret, exit, statusCalls, datasetCalls,
      unslept, gapSleeps, emptySeen, onlyRunning>>

runVars ==
    <<handler, start_response, run_info, createCalls, postsCalls,
      completionCalls, completion_response, raised>>

keyVars == <<apify_api_key, groq_api_key>>

sessionVars ==
    <<sender_info, sender_data, sender_analyzing, processing_status,
      profile_data, research_brief, generated_messages, current_message_index>>

msgVars ==
    <<fields, lines_read, messages, current_option, current_message,
      validated_messages, msg_result>>

uiVars == <<regenerate_mode>>

ghostVars == <<session0, origin>>

postsVars == <<posts_response, posts, valid_posts, top_posts, posts_error>>

vars == <<pc, pollVars, runVars, keyVars, sessionVars, msgVars, uiVars,
          ghostVars, postsVars>>

\* ------------------------------------------------- message generator: data

\* The text '\n'.join(current_message) as the validation sees it: its number
\* of lines, its length, whether its first line is "Hi <name>,", how much of
\* the signature "Best,\n<sender>" it ends with (0, 1 or 2 lines), and
\* whether it ends with a full stop.  lines = 0 is the empty list.
EmptyMessage == [lines |-> 0, len |-> 0, greeted |-> FALSE, sig |-> 0, dot |-> FALSE]

NoFields ==
    [prospect_name |-> 0, prospect_role |-> 0, prospect_company |-> 0,
     sender_first_name |-> 0]

\* analyze_and_generate_message has not been called.
\* No posts response has been received.
NoPostsResponse == [exc |-> "none", code |-> 0, body |-> "none", items |-> <<>>]

\* scrape_linkedin_posts is not running.
PostsIdle ==
    /\ posts_response = NoPostsResponse
    /\ posts = <<>>
    /\ valid_posts = <<>>
    /\ top_posts = <<>>
    /\ posts_error = "none"

MsgIdle ==
    /\ fields = NoFields
    /\ lines_read = 0
    /\ messages = <<>>
    /\ current_option = 0
    /\ current_message = EmptyMessage
    /\ validated_messages = <<>>
    /\ msg_result = <<>>

\* ------------------------------------------------ poll_apify_run_with_status

\* A variant of the elif at line 236 that forgets ABORTED.
TerminalStatuses_NoAborted == {"FAILED", "TIMED-OUT"}

\* The statuses of the elif at line 236.
TerminalStatuses == {"FAILED", "TIMED-OUT", "ABORTED"}

\* What the code sees of a status response: "<exception>" when the request or
\* the decoding raises, "<non200>", or the value of data.status ("UNKNOWN"
\* when the key is missing).
ObservedStatus(resp) ==
    IF resp.exc THEN "<exception>"
    ELSE IF resp.code # HTTP_OK THEN "<non200>"
    ELSE IF resp.shape \in {"no_data", "not_json"} THEN "<exception>"
    ELSE IF resp.shape = "no_status" THEN "UNKNOWN"
    ELSE resp.status

\* A variant that loops as `while True` would.
LoopContinues_Forever(a) == TRUE

\* A variant that loops over range(max_attempts + 1).
LoopContinues_OneMore(a) == a < max_attempts

\* range(max_attempts): whether the for loop has another iteration after
\* iteration a.
LoopContinues(a) == a + 1 < max_attempts

\* A variant of the test at line 219 that also takes READY for success.
JobSucceeded_OrReady(s) == s \in {"SUCCEEDED", "READY"}

\* The test at line 219, after which the dataset is retrieved.
JobSucceeded(s) == s = "SUCCEEDED"

\* A variant whose except clause (line 246) does not sleep.
SleepsAfterStatus_NoException(s) == s \in {"RUNNING", "<non200>"}

\* A variant whose RUNNING branch (line 240) does not sleep.
SleepsAfterStatus_NoRunning(s) == s \in {"<non200>", "<exception>"}

\* The outcomes after which the iteration sleeps before the next one.
SleepsAfterStatus(s) == s \in {"RUNNING", "<non200>", "<exception>"}

\* A variant whose second branch accepts any non-list body, not only a dict.
BodyUsable_AnyNonList(b) == (b.tag = "list" /\ Len(b.elems) > 0) \/ b.tag # "list"

\* The payload lines 228-231 extract from a decoded body; usable says whether
\* one of the two branches returns.
BodyUsable(b) == (b.tag = "list" /\ Len(b.elems) > 0) \/ b.tag = "dict"

\* A variant that takes the last item of the list instead of items[0].
PayloadOf_Last(b) ==
    IF b.tag = "list" THEN b.elems[Len(b.elems)] ELSE [tag |-> "dict", v |-> b.v]

PayloadOf(b) ==
    IF b.tag = "list" THEN b.elems[1] ELSE [tag |-> "dict", v |-> b.v]

Bump(n) == IF n < CallCap THEN n + 1 ELSE CallCap

\* A variant that counts an attempt only when the iteration slept, as a
\* while loop with the increment next to the sleep would.
EndIteration_CountSlept(slept) ==
    /\ unslept' = IF slept THEN unslept ELSE Bump(unslept)
    /\ gapSleeps' = IF slept THEN 1 ELSE 0
    /\ attempt' = IF slept THEN attempt + 1 ELSE attempt
    /\ IF LoopContinues(attempt)
         THEN /\ pc' = "poll"
              /\ UNCHANGED <<ret, exit>>
         ELSE /\ pc' = "polled"
              /\ ret' = None
              /\ exit' = "timeout"

\* End of an iteration that did not return, after sleeping or not: the loop
\* goes to its next iteration, or falls out of the for and reports the polling
\* timeout (lines 250-251).
EndIteration(slept) ==
    /\ unslept' = IF slept THEN unslept ELSE Bump(unslept)
    /\ gapSleeps' = IF slept THEN 1 ELSE 0
    /\ attempt' = attempt + 1
    /\ IF LoopContinues(attempt)
         THEN /\ pc' = "poll"
              /\ UNCHANGED <<ret, exit>>
         ELSE /\ pc' = "polled"
              /\ ret' = None
              /\ exit' = "timeout"

PollReturn(value, how) ==
    /\ pc' = "polled"
    /\ ret' = value
    /\ exit' = how
    /\ gapSleeps' = 0
    /\ UNCHANGED <<attempt, unslept>>

\* One status check (lines 211-217) and the branch on its outcome
\* (lines 219, 236-248).
StatusCheck(resp) ==
    /\ pc = "poll"
    /\ UNCHANGED <<runVars, keyVars, uiVars, postsVars, ghostVars, sessionVars, msgVars>>
    /\ statusCalls' = statusCalls + 1
    /\ current_status' = ObservedStatus(resp)
    /\ items' = NoBody
    /\ onlyRunning' = (onlyRunning /\ current_status' = "RUNNING")
    /\ UNCHANGED <<datasetCalls, emptySeen>>
    /\ IF JobSucceeded(current_status')
         THEN /\ pc' = "dataset"
              /\ gapSleeps' = 0
              /\ UNCHANGED <<attempt, ret, exit, unslept>>
         ELSE IF current_status' \in TerminalStatuses
           THEN PollReturn(None, "terminal")
           ELSE EndIteration(SleepsAfterStatus(current_status'))

\* The dataset retrieval after SUCCEEDED (lines 222-234) and what follows it.
DatasetFetch(resp) ==
    /\ pc = "dataset"
    /\ UNCHANGED <<runVars, keyVars, uiVars, postsVars, ghostVars, sessionVars, msgVars>>
    /\ datasetCalls' = Bump(datasetCalls)
    /\ UNCHANGED <<statusCalls, current_status, onlyRunning>>
    /\ items' = resp.body
    /\ emptySeen' = (emptySeen \/ (~resp.exc /\ resp.code = HTTP_OK
                                    /\ resp.body.tag = "list"
                                    /\ Len(resp.body.elems) = 0))
    /\ IF resp.exc \/ (resp.code = HTTP_OK /\ resp.body.tag = "none")
         THEN EndIteration(TRUE)
         ELSE IF resp.code # HTTP_OK
           THEN PollReturn(None, "dataset_error")
           ELSE IF BodyUsable(resp.body)
             THEN PollReturn(PayloadOf(resp.body), "payload")
             ELSE EndIteration(FALSE)

PollInit ==
    /\ attempt = 0
    /\ current_status = "none"
    /\ items = NoBody
    /\ ret = None
    /\ exit = "none"
    /\ statusCalls = 0
    /\ datasetCalls = 0
    /\ unslept = 0
    /\ gapSleeps = 0
    /\ emptySeen = FALSE
    /\ onlyRunning = TRUE

\* ------------------------------------------------------------ start_apify_run

\* The job-creation response: exc when requests.post raises; shape "ok" when
\* the body holds data.id and data.defaultDatasetId.
CreateResponses ==
    { [exc |-> TRUE, code |-> 0, shape |-> "none", run_id |-> "", dataset_id |-> ""] }
    \cup { [exc |-> FALSE, code |-> c, shape |-> "ok", run_id |-> "r1",
            dataset_id |-> "d1"] : c \in {HTTP_OK, HTTP_CREATED, 202} }
    \cup { [exc |-> FALSE, code |-> c, shape |-> sh, run_id |-> "", dataset_id |-> ""] :
              c \in {HTTP_CREATED, 401, 500},
              sh \in {"no_id", "no_dataset_id", "not_json"} }

NoResponse == [exc |-> FALSE, code |-> 0, shape |-> "none", run_id |-> "", dataset_id |-> ""]

\* start_apify_run returning None.
NoHandle == [run_id |-> "", dataset_id |-> "", status |-> "None"]

\* A variant that takes every 2xx answer for success.
start_apify_run_Any2xx(resp) ==
    IF resp.exc THEN NoHandle
    ELSE IF resp.code \in {HTTP_OK, HTTP_CREATED, 202}
      THEN IF resp.shape = "ok"
             THEN [run_id |-> resp.run_id, dataset_id |-> resp.dataset_id,
                   status |-> "RUNNING"]
             ELSE NoHandle
      ELSE NoHandle

\* The value start_apify_run returns for a response (lines 22-46): a decoding
\* or key error at lines 34-37 is caught at line 44.
start_apify_run(resp) ==
    IF resp.exc THEN NoHandle
    ELSE IF resp.code = HTTP_CREATED
      THEN IF resp.shape = "ok"
             THEN [run_id |-> resp.run_id, dataset_id |-> resp.dataset_id,
                   status |-> "RUNNING"]
             ELSE NoHandle
      ELSE NoHandle

\* ------------------------------------------------------------ session state

NoProfile == [tag |-> "null", v |-> 0, posts |-> "none"]

Message(i) == [text |-> "message", char_count |-> 280, option |-> i]

\* Lines 1083-1106: the session of a first script run.
FreshSession ==
    [sender_info |-> "None", sender_data |-> None, processing_status |-> "Ready",
     profile_data |-> NoProfile, research_brief |-> "None",
     generated_messages |-> <<>>, current_message_index |-> -1]

\* The session after a sender analysis from a LinkedIn URL.
SenderSetSession ==
    [FreshSession EXCEPT !.sender_info = "extracted",
                         !.sender_data = [tag |-> "dict", v |-> 1]]

\* The session after a prospect analysis and a message generation.
AnalysedSession ==
    [SenderSetSession EXCEPT
        !.profile_data = [tag |-> "dict", v |-> 1, posts |-> "empty"],
        !.research_brief = "content",
        !.generated_messages = <<Message(1), Message(2), Message(3)>>,
        !.current_message_index = 1]

Sessions == {FreshSession, SenderSetSession, AnalysedSession}

\* Python truthiness of st.session_state.sender_info.
SenderInfoTruthy(x) == x \notin {"None", "parsed_empty"}

SessionIs(sess) ==
    /\ sender_info = sess.sender_info
    /\ sender_data = sess.sender_data
    /\ sender_analyzing = FALSE
    /\ processing_status = sess.processing_status
    /\ profile_data = sess.profile_data
    /\ research_brief = sess.research_brief
    /\ generated_messages = sess.generated_messages
    /\ current_message_index = sess.current_message_index
    /\ regenerate_mode = FALSE

\* No completion request has been answered yet.
NoCompletion == [exc |-> "none", code |-> 0, shape |-> "none"]

\* The stored results of a prospect analysis.
StoredResults ==
    [profile_data |-> profile_data, research_brief |-> research_brief,
     generated_messages |-> generated_messages,
     current_message_index |-> current_message_index]

\* A script run begins: what the session holds was stored by earlier runs.
GhostInit ==
    /\ session0 = StoredResults
    /\ origin = [profile_data |-> IF profile_data.tag = "null" THEN 0 ELSE 1,
                 research_brief |-> IF research_brief = "None" THEN 0 ELSE 1]

RunInit ==
    /\ handler = "none"
    /\ start_response = NoResponse
    /\ run_info = NoHandle
    /\ createCalls = 0
    /\ postsCalls = 0
    /\ completionCalls = 0
    /\ completion_response = NoCompletion
    /\ raised = FALSE

\* One invocation of poll_apify_run_with_status, from its first line.
InitPoll ==
    /\ pc = "poll"
    /\ PollInit
    /\ RunInit
    /\ apify_api_key = "key"
    /\ groq_api_key = "key"
    /\ SessionIs(FreshSession)
    /\ MsgIdle
    /\ PostsIdle
    /\ GhostInit

NextPoll ==
    \/ \E resp \in StatusResponses : StatusCheck(resp)
    \/ \E resp \in DatasetResponses : DatasetFetch(resp)

SpecPoll == InitPoll /\ [][NextPoll]_vars

\* The code's scheduling: one thread, every request has a timeout and every
\* sleep ends, so a step that is possible is eventually taken.
FairSpecPoll == SpecPoll /\ WF_vars(NextPoll)

\* ------------------------------------------------------------------ handlers

\* The posts-scraper response (lines 73-83) and the posts it carries: "relevant"
\* are recent posts with an include keyword, "old" are posts older than a month,
\* "bad_timestamp" is a post whose timestamp is a string.
PostsResponses ==
    { [exc |-> e, code |-> 0, posts |-> "none"] : e \in {"timeout", "other"} }
    \cup { [exc |-> "none", code |-> 500, posts |-> "none"] }
    \cup { [exc |-> "none", code |-> HTTP_OK, posts |-> p] :
              p \in {"none", "relevant", "old", "bad_timestamp"} }

\* What lines 1365-1368 leave in relevant_posts: scrape_linkedin_posts returns
\* [] on every failure (lines 147-161); filter_recent_relevant_posts compares
\* the timestamp with a float (line 184), which raises for a string.
PostsOutcome(resp) ==
    IF resp.exc # "none" \/ resp.code # HTTP_OK THEN "empty"
    ELSE IF resp.posts = "bad_timestamp" THEN "raise"
    ELSE IF resp.posts = "relevant" THEN "some"
    ELSE "empty"

\* The completion response: shape "ok" when choices[0].message.content exists.
CompletionResponses ==
    { [exc |-> e, code |-> 0, shape |-> "none"] : e \in {"timeout", "other"} }
    \cup { [exc |-> "none", code |-> c, shape |-> "none"] : c \in {401, 429, 500} }
    \cup { [exc |-> "none", code |-> HTTP_OK, shape |-> sh] :
              sh \in {"ok", "ok_empty", "no_choices"} }

\* The texts generate_research_brief returns in place of a brief
\* (lines 304, 307, 309).
StatusFallback(code) ==
    "Research brief generation encountered an issue (Status: " \o ToString(code)
    \o "). The profile data is loaded and ready for message generation."

TimeoutFallback ==
    "Research brief generation is taking longer than expected. "
    \o "Profile data is loaded and ready for message generation."

UnavailableFallback ==
    "Research brief service temporarily unavailable. Profile data loaded successfully."

\* A variant that returns None instead of a fallback text.
generate_research_brief_NoneOnError(resp) ==
    IF resp.exc # "none" \/ resp.code # HTTP_OK THEN "None"
    ELSE IF resp.shape = "ok" THEN "content"
    ELSE ""

\* A variant whose else branch at line 303 returns the empty response text.
generate_research_brief_EmptyOnStatus(resp) ==
    IF resp.exc = "timeout" THEN TimeoutFallback
    ELSE IF resp.exc = "other" THEN UnavailableFallback
    ELSE IF resp.code # HTTP_OK THEN ""
    ELSE IF resp.shape = "ok" THEN "content"
    ELSE IF resp.shape = "ok_empty" THEN ""
    ELSE UnavailableFallback

\* generate_research_brief (lines 293-312) for a profile that json.dumps
\* accepts: the text of choices[0].message.content on a 200 ("content", or ""
\* when the service sent an empty text), a fallback text otherwise; a 200
\* without choices raises inside the inner try and ends in the except at 308.
generate_research_brief(resp) ==
    IF resp.exc = "timeout" THEN TimeoutFallback
    ELSE IF resp.exc = "other" THEN UnavailableFallback
    ELSE IF resp.code # HTTP_OK THEN StatusFallback(resp.code)
    ELSE IF resp.shape = "ok" THEN "content"
    ELSE IF resp.shape = "ok_empty" THEN ""
    ELSE UnavailableFallback

\* analyze_sender_profile_with_llm (lines 354-384): the parsed JSON content, or
\* the default record.
analyze_sender_profile_with_llm(resp) ==
    IF resp.exc # "none" \/ resp.code # HTTP_OK THEN "fallback"
    ELSE IF resp.shape = "ok" THEN "parsed"
    ELSE IF resp.shape = "ok_empty" THEN "fallback"
    ELSE "fallback"

\* A variant of `if run_info:` that goes on whatever start_apify_run returned.
RunStarted_Always(info) == TRUE

\* `if run_info:` at lines 1233 and 1354.
RunStarted(info) == info # NoHandle

\* The end of a script run.
Finish == pc' = "done"

\* "Analyze LinkedIn Profile" clicked with a URL typed in (lines 1224-1231).
ClickAnalyzeSender ==
    /\ pc = "idle"
    /\ UNCHANGED <<pollVars, keyVars, uiVars, postsVars, ghostVars,
                   msgVars, start_response, run_info, createCalls,
                   postsCalls, completionCalls,
                   completion_response, raised>>
    /\ handler' = "sender"
    /\ UNCHANGED <<sender_info, sender_data, processing_status, profile_data,
                   research_brief, generated_messages, current_message_index>>
    /\ IF apify_api_key = ""
         THEN /\ Finish
              /\ UNCHANGED sender_analyzing
         ELSE /\ sender_analyzing' = TRUE
              /\ pc' = "start"

\* "Analyze Prospect" clicked: the button is enabled only with sender_info set
\* and a URL typed in (lines 1333-1351).
ClickAnalyzeProspect ==
    /\ pc = "idle"
    /\ SenderInfoTruthy(sender_info)
    /\ UNCHANGED <<pollVars, keyVars, uiVars, postsVars, ghostVars,
                   msgVars, start_response, run_info, createCalls,
                   postsCalls, completionCalls,
                   completion_response, raised>>
    /\ handler' = "prospect"
    /\ UNCHANGED <<sender_info, sender_data, sender_analyzing, profile_data,
                   research_brief, generated_messages, current_message_index>>
    /\ IF apify_api_key = "" \/ groq_api_key = ""
         THEN /\ Finish
              /\ UNCHANGED processing_status
         ELSE /\ processing_status' = "Analyzing Prospect"
              /\ pc' = "start"

\* "Analyze Profile Text" clicked with text typed in (lines 1291-1293).
ClickAnalyzeManual ==
    /\ pc = "idle"
    /\ UNCHANGED <<pollVars, keyVars, uiVars, postsVars, ghostVars,
                   msgVars, start_response, run_info, createCalls,
                   postsCalls, completionCalls,
                   completion_response, raised>>
    /\ handler' = "manual"
    /\ sender_analyzing' = TRUE
    /\ pc' = "llm_sender"
    /\ UNCHANGED <<sender_info, sender_data, processing_status, profile_data,
                   research_brief, generated_messages, current_message_index>>

\* The completion request of the manual sender analysis (lines 1294-1299).
AnalyzeManual(resp) ==
    /\ pc = "llm_sender"
    /\ completionCalls' = completionCalls + 1
    /\ completion_response' = resp
    /\ sender_info' = analyze_sender_profile_with_llm(resp)
    /\ sender_analyzing' = FALSE
    /\ Finish
    /\ UNCHANGED <<pollVars, keyVars, uiVars, postsVars, ghostVars,
                   msgVars, handler, start_response, run_info,
                   createCalls, postsCalls, raised>>
    /\ UNCHANGED <<sender_data, processing_status, profile_data, research_brief,
                   generated_messages, current_message_index>>

\* The job-creation request of either handler (lines 1231-1233, 1352-1354) and,
\* when no handle came back, the handler's else branch (lines 1249-1251; the
\* prospect handler has none).
StartRun(resp) ==
    /\ pc = "start"
    /\ createCalls' = createCalls + 1
    /\ start_response' = resp
    /\ run_info' = start_apify_run(resp)
    /\ UNCHANGED <<pollVars, keyVars, uiVars, postsVars, ghostVars,
                   msgVars, handler, postsCalls, completionCalls,
                   completion_response, raised>>
    /\ UNCHANGED <<sender_info, sender_data, processing_status, profile_data,
                   research_brief, generated_messages, current_message_index>>
    /\ IF RunStarted(run_info')
         THEN /\ pc' = "poll"
              /\ UNCHANGED sender_analyzing
         ELSE /\ Finish
              /\ sender_analyzing' = IF handler = "sender" THEN FALSE
                                      ELSE sender_analyzing

\* The sender handler after the poller returned (lines 1240-1248).
SenderAfterPoll ==
    /\ pc = "polled"
    /\ handler = "sender"
    /\ IF Truthy(ret)
         THEN /\ sender_data' = ret
              /\ sender_info' = "extracted"
         ELSE UNCHANGED <<sender_data, sender_info>>
    /\ sender_analyzing' = FALSE
    /\ Finish
    /\ UNCHANGED <<pollVars, keyVars, uiVars, postsVars, ghostVars, msgVars, runVars>>
    /\ UNCHANGED <<processing_status, profile_data, research_brief,
                   generated_messages, current_message_index>>

\* The prospect handler after the poller returned (lines 1362-1364, 1385-1387).
ProspectAfterPoll ==
    /\ pc = "polled"
    /\ handler = "prospect"
    /\ IF Truthy(ret)
         THEN /\ processing_status' = "Scraping Recent Posts"
              /\ pc' = "posts"
         ELSE /\ processing_status' = "Error"
              /\ Finish
    /\ UNCHANGED <<pollVars, keyVars, uiVars, postsVars, ghostVars, msgVars, runVars>>
    /\ UNCHANGED <<sender_info, sender_data, sender_analyzing, profile_data,
                   research_brief, generated_messages, current_message_index>>

\* The posts scrape and the lines up to the completion request
\* (lines 1365-1375): filtering the posts or storing them into a payload that
\* is no dict raises, and nothing catches it.
ScrapePosts(resp) ==
    /\ pc = "posts"
    /\ postsCalls' = postsCalls + 1
    /\ UNCHANGED <<pollVars, keyVars, uiVars, postsVars, session0,
                   msgVars, handler, start_response, run_info,
                   createCalls, completionCalls, completion_response>>
    /\ UNCHANGED <<sender_info, sender_data, sender_analyzing, research_brief,
                   generated_messages, current_message_index>>
    /\ IF PostsOutcome(resp) = "raise" \/ ret.tag # "dict"
         THEN /\ raised' = TRUE
              /\ Finish
              /\ UNCHANGED <<profile_data, processing_status, origin>>
         ELSE /\ profile_data' = [tag |-> ret.tag, v |-> ret.v,
                                  posts |-> PostsOutcome(resp)]
              /\ origin' = [origin EXCEPT !.profile_data = 2]
              /\ processing_status' = "Generating Research"
              /\ pc' = "brief"
              /\ UNCHANGED raised

\* The completion request of the research brief and the end of the prospect
\* handler (lines 1377-1384).
GenerateBrief(resp) ==
    /\ pc = "brief"
    /\ completionCalls' = completionCalls + 1
    /\ completion_response' = resp
    /\ research_brief' = generate_research_brief(resp)
    /\ origin' = [origin EXCEPT !.research_brief = 2]
    /\ processing_status' = "Ready"
    /\ generated_messages' = <<>>
    /\ current_message_index' = -1
    /\ Finish
    /\ UNCHANGED <<pollVars, keyVars, uiVars, postsVars, session0,
                   msgVars, handler, start_response, run_info,
                   createCalls, postsCalls, raised>>
    /\ UNCHANGED <<sender_info, sender_data, sender_analyzing, profile_data>>

\* One script run: a session some earlier runs left, and the click it handles.
InitApp ==
    /\ pc = "idle"
    /\ PollInit
    /\ RunInit
    /\ apify_api_key \in {"", "key"}
    /\ groq_api_key \in {"", "key"}
    /\ \E sess \in Sessions : SessionIs(sess)
    /\ MsgIdle
    /\ PostsIdle
    /\ GhostInit

NextApp ==
    \/ ClickAnalyzeSender
    \/ ClickAnalyzeProspect
    \/ ClickAnalyzeManual
    \/ \E resp \in CompletionResponses : AnalyzeManual(resp)
    \/ \E resp \in CreateResponses : StartRun(resp)
    \/ \E resp \in StatusResponses : StatusCheck(resp)
    \/ \E resp \in DatasetResponses : DatasetFetch(resp)
    \/ SenderAfterPoll
    \/ ProspectAfterPoll
    \/ \E resp \in PostsResponses : ScrapePosts(resp)
    \/ \E resp \in CompletionResponses : GenerateBrief(resp)

SpecApp == InitApp /\ [][NextApp]_vars

\* ------------------------------------------- analyze_and_generate_message

\* A text is modelled by its length.  The inputs: the prospect's first name
\* ("there" when the profile has none, line 481), the role and the company
\* (cut to 100 characters at lines 507-508, empty when the profile has no
\* experience), and the sender's first name.
NameLens == {5}
RoleLens == {0, 20, 90}
CompanyLens == {0, 20}
SenderLens == {4}

FieldSets ==
    [prospect_name : NameLens, prospect_role : RoleLens,
     prospect_company : CompanyLens, sender_first_name : SenderLens]

\* Lengths of the text lines of a completion: each is one sentence ending
\* with a full stop and holding no "...".
TextLens == {120, 270}

\* The lines of a completion text, stripped: header is k for a line that
\* starts with "Option k:" (0 for any other line) and kind says what follows
\* the header, or what the line is: nothing, the greeting "Hi <name>,", a
\* sentence, "Best,", the sender's first name, or a line that starts with
\* "option" without being a header.
ContentLines ==
    { [header |-> h, kind |-> k, len |-> 0] : h \in 1..3, k \in {"blank", "greeting"} }
    \cup { [header |-> h, kind |-> "text", len |-> 270] : h \in 1..3 }
    \cup { [header |-> 0, kind |-> "text", len |-> n] : n \in TextLens }
    \cup { [header |-> 0, kind |-> k, len |-> 0] :
              k \in {"blank", "greeting", "best", "sender", "junk"} }

\* len(s or default) for a text of length n.
OrDefault(n, default) == IF n = 0 THEN default ELSE n

LineLen(line, f) ==
    CASE line.kind = "greeting" -> f.prospect_name + 4
      [] line.kind = "text" -> line.len
      [] line.kind = "best" -> 5
      [] line.kind = "sender" -> f.sender_first_name
      [] OTHER -> 0

\* current_message.append(line), or [line] when m is the empty list.
AppendLine(m, line, f) ==
    [lines |-> m.lines + 1,
     len |-> IF m.lines = 0 THEN LineLen(line, f) ELSE m.len + 1 + LineLen(line, f),
     greeted |-> IF m.lines = 0 THEN line.kind = "greeting" ELSE m.greeted,
     sig |-> IF line.kind = "best" THEN 1
             ELSE IF line.kind = "sender" /\ m.sig = 1 THEN 2 ELSE 0,
     dot |-> line.kind = "text"]

\* 250 <= len(msg) <= 300 (lines 806, 811, 823, 856).
InRange(n) == MIN_CHARS <= n /\ n <= MAX_CHARS

\* Lengths of the f-strings at lines 810 and 817-819.
ValidationFallback(f) ==
    142 + f.prospect_name + OrDefault(f.prospect_company, 12)
        + OrDefault(f.prospect_role, 10) + f.sender_first_name

fallback_template(f) ==
    << 156 + f.prospect_name + OrDefault(f.prospect_role, 10) + f.sender_first_name,
       142 + f.prospect_name + OrDefault(f.prospect_company, 17) + f.sender_first_name,
       136 + f.prospect_name + OrDefault(f.prospect_role, 11) + f.sender_first_name >>

\* Lines 755-812 for one parsed message: the length of the message appended
\* to validated_messages, as a list of at most one element.  The greeting is
\* put in front (757-758), the signature behind, after dropping a final full
\* stop (761-766); a short message of three lines or more gets 45 characters
\* more (771-778); a long one is left as it is, since each of its lines is one
\* sentence (780-803).
ValidatedMessage(m, f) ==
    LET len1 == IF m.greeted THEN m.len ELSE m.len + f.prospect_name + 5
        lines1 == IF m.greeted THEN m.lines ELSE m.lines + 1
        len2 == IF m.sig = 2 THEN len1
                ELSE len1 - (IF m.dot THEN 1 ELSE 0) + 7 + f.sender_first_name
        lines2 == IF m.sig = 2 THEN lines1 ELSE lines1 + 2
        len3 == IF len2 < MIN_CHARS /\ lines2 >= 3 THEN len2 + 45 ELSE len2
    IN IF m.len = 0 THEN <<>>
       ELSE IF InRange(len3) THEN <<len3>>
       ELSE IF InRange(ValidationFallback(f)) THEN <<ValidationFallback(f)>>
       ELSE <<>>

RECURSIVE ValidateAll(_, _)
ValidateAll(ms, f) ==
    IF ms = <<>> THEN <<>>
    ELSE ValidatedMessage(Head(ms), f) \o ValidateAll(Tail(ms), f)

\* One pass of the for loop at lines 822-824 over the three templates.
RECURSIVE AppendFitting(_, _)
AppendFitting(v, ts) ==
    IF ts = <<>> THEN v
    ELSE AppendFitting(IF Len(v) < 3 /\ InRange(Head(ts)) THEN Append(v, Head(ts)) ELSE v,
                       Tail(ts))

\* Lines 837-841 and 855-861: how a fallback message is brought into the limits.
Adjusted(n, suffix) ==
    IF n > MAX_CHARS THEN 297 + 3
    ELSE IF n < MIN_CHARS THEN n + suffix
    ELSE n

\* The list returned on a non-200 answer (lines 830-843).
StatusMessages(f) ==
    << Adjusted(149 + f.prospect_name + OrDefault(f.prospect_role, 10)
                    + f.sender_first_name, 62),
       Adjusted(126 + f.prospect_name + OrDefault(f.prospect_company, 17)
                    + f.sender_first_name, 62),
       Adjusted(139 + f.prospect_name + OrDefault(f.prospect_role, 11)
                    + f.sender_first_name, 62) >>

\* The list returned from the except clause (lines 845-863).
ExceptionMessages(f) ==
    << Adjusted(161 + f.prospect_name + f.sender_first_name, 65),
       Adjusted(165 + f.prospect_name + f.sender_first_name, 65),
       Adjusted(162 + f.prospect_name + f.sender_first_name, 65) >>

\* The completion request (lines 708-716) and the two fallback branches.
MsgRequest(resp) ==
    /\ pc = "msg_request"
    /\ completionCalls' = completionCalls + 1
    /\ completion_response' = resp
    /\ UNCHANGED <<pollVars, keyVars, uiVars, postsVars, ghostVars,
                   sessionVars, handler, start_response,
                   run_info, createCalls, postsCalls, raised>>
    /\ UNCHANGED <<fields, lines_read, messages, current_option, current_message,
                   validated_messages>>
    /\ IF resp.exc # "none" \/ (resp.code = HTTP_OK /\ resp.shape = "no_choices")
         THEN /\ msg_result' = ExceptionMessages(fields)
              /\ pc' = "msg_returned"
         ELSE IF resp.code # HTTP_OK
           THEN /\ msg_result' = StatusMessages(fields)
                /\ pc' = "msg_returned"
           ELSE /\ pc' = IF resp.shape = "ok_empty" THEN "msg_validate" ELSE "msg_parse"
                /\ UNCHANGED msg_result

\* One iteration of the for loop over the lines of the text (lines 726-746).
ParseLine(line) ==
    /\ pc = "msg_parse"
    /\ lines_read < MaxLines
    /\ lines_read' = lines_read + 1
    /\ IF line.header > 0
         THEN /\ messages' = IF current_option # 0 /\ current_message.lines > 0
                               THEN Append(messages, current_message)
                               ELSE messages
              /\ current_option' = line.header
              /\ current_message' = AppendLine(EmptyMessage, line, fields)
         ELSE IF current_option # 0 /\ line.kind \notin {"blank", "junk"}
           THEN /\ current_message' = AppendLine(current_message, line, fields)
                /\ UNCHANGED <<messages, current_option>>
           ELSE UNCHANGED <<messages, current_option, current_message>>
    /\ UNCHANGED <<pc, pollVars, runVars, keyVars, uiVars, postsVars, ghostVars, sessionVars>>
    /\ UNCHANGED <<fields, validated_messages, msg_result>>

\* The text has no further line.
ParseEnd ==
    /\ pc = "msg_parse"
    /\ pc' = "msg_validate"
    /\ UNCHANGED <<pollVars, runVars, keyVars, uiVars, postsVars, ghostVars, sessionVars, msgVars>>

\* The last message is added (lines 749-750) and the messages are cleaned and
\* validated (lines 753-812).
ValidateMessages ==
    /\ pc = "msg_validate"
    /\ messages' = IF current_message.lines > 0
                     THEN Append(messages, current_message)
                     ELSE messages
    /\ validated_messages' = ValidateAll(messages', fields)
    /\ pc' = "msg_ensure"
    /\ UNCHANGED <<pollVars, runVars, keyVars, uiVars, postsVars, ghostVars, sessionVars>>
    /\ UNCHANGED <<fields, lines_read, current_option, current_message, msg_result>>

\* One pass of `while len(validated_messages) < 3` (lines 815-824).
EnsurePass ==
    /\ pc = "msg_ensure"
    /\ Len(validated_messages) < 3
    /\ validated_messages' = AppendFitting(validated_messages, fallback_template(fields))
    /\ UNCHANGED <<pc, pollVars, runVars, keyVars, uiVars, postsVars, ghostVars, sessionVars>>
    /\ UNCHANGED <<fields, lines_read, messages, current_option, current_message,
                   msg_result>>

\* return validated_messages[:3] (line 826).
MsgReturn ==
    /\ pc = "msg_ensure"
    /\ Len(validated_messages) >= 3
    /\ msg_result' = SubSeq(validated_messages, 1, 3)
    /\ pc' = "msg_returned"
    /\ UNCHANGED <<pollVars, runVars, keyVars, uiVars, postsVars, ghostVars, sessionVars>>
    /\ UNCHANGED <<fields, lines_read, messages, current_option, current_message,
                   validated_messages>>

\* One call of analyze_and_generate_message from the Generate AI Messages
\* button, after a prospect analysis (lines 1405-1418).
InitMsg ==
    /\ pc = "msg_request"
    /\ PollInit
    /\ RunInit
    /\ apify_api_key = "key"
    /\ groq_api_key = "key"
    /\ SessionIs(AnalysedSession)
    /\ GhostInit
    /\ PostsIdle
    /\ fields \in FieldSets
    /\ lines_read = 0
    /\ messages = <<>>
    /\ current_option = 0
    /\ current_message = EmptyMessage
    /\ validated_messages = <<>>
    /\ msg_result = <<>>

NextMsg ==
    \/ \E resp \in CompletionResponses : MsgRequest(resp)
    \/ \E line \in ContentLines : ParseLine(line)
    \/ ParseEnd
    \/ ValidateMessages
    \/ EnsurePass
    \/ MsgReturn

SpecMsg == InitMsg /\ [][NextMsg]_vars

\* ---------------------------------------------------------------------------
\* The message tab (lines 1389-1536).  Every click is one script run; an
\* action below is the whole run, the rerun it asks for included.
\* ---------------------------------------------------------------------------

\* What analyze_and_generate_message hands back: three messages, given by
\* their lengths.
MessageResults ==
    { StatusMessages(f) : f \in FieldSets }
    \cup { ExceptionMessages(f) : f \in FieldSets }
    \cup { <<n, n, n>> : n \in {MIN_CHARS, MAX_CHARS} }

\* Lines 1423-1427: the record stored for the message of option i.
StoredMessage(n, i) == [text |-> "message", char_count |-> n, option |-> i]

\* Lines 1422-1427: every returned message is stored as a record.
StoreAll(ms) == [i \in 1..Len(ms) |-> StoredMessage(ms[i], i)]

\* Line 1528: the returned list itself becomes one element.
RefinedElement(ms) == [list |-> ms]

\* Line 1390: the tabs are rendered only for a complete analysis.
TabsShown ==
    /\ Truthy(profile_data)
    /\ research_brief \notin {"None", ""}
    /\ SenderInfoTruthy(sender_info)

\* Python's list indexing: negative indices count from the end.
IndexDefined(n, i) == -n <= i /\ i < n

PyItem(list, i) == IF i >= 0 THEN list[i + 1] ELSE list[Len(list) + i + 1]

\* Lines 1441-1444: the script run stops at the lookup of the current message.
DisplayRaises ==
    /\ TabsShown
    /\ Len(generated_messages) > 0
    /\ \/ ~IndexDefined(Len(generated_messages), current_message_index)
       \/ {"text", "char_count", "option"} \ DOMAIN
              PyItem(generated_messages, current_message_index) # {}

\* The widgets below line 1444 are rendered.
MessageShown ==
    /\ TabsShown
    /\ Len(generated_messages) > 0
    /\ ~DisplayRaises

PreviousDisabled(idx) == idx <= 0

NextDisabled_Never(idx, n) == FALSE

NextDisabled(idx, n) == idx >= n - 1

uiRest == <<pc, pollVars, runVars, keyVars, msgVars, ghostVars, postsVars,
            sender_info, sender_data, sender_analyzing>>

\* Lines 1345-1387 as one script run: nothing is stored unless both the
\* profile and the brief are (lines 1374-1384).
UIAnalyzeProspect ==
    /\ SenderInfoTruthy(sender_info)
    /\ UNCHANGED <<uiRest, regenerate_mode>>
    /\ \/ /\ processing_status' \in
                {"Analyzing Prospect", "Scraping Recent Posts", "Error"}
          /\ processing_status' # processing_status
          /\ UNCHANGED <<profile_data, research_brief, generated_messages,
                         current_message_index>>
       \/ /\ \E p \in {"empty", "some"} :
                profile_data' = [tag |-> "dict", v |-> 1, posts |-> p]
          /\ \E resp \in CompletionResponses :
                research_brief' = generate_research_brief(resp)
          /\ processing_status' = "Ready"
          /\ generated_messages' = <<>>
          /\ current_message_index' = -1

\* Lines 1405-1429.  The list is emptied before the call (line 1412); the call
\* may not return (lines 555-560 are outside the try, the loop of line 815).
UIGenerate ==
    /\ TabsShown
    /\ UNCHANGED <<uiRest, regenerate_mode, processing_status, profile_data,
                   research_brief>>
    /\ \/ /\ generated_messages # <<>>
          /\ generated_messages' = <<>>
          /\ UNCHANGED current_message_index
       \/ \E ms \in MessageResults :
             /\ generated_messages' = StoreAll(ms)
             /\ current_message_index' = 0

\* Lines 1431-1438.
UIRefineClick ==
    /\ TabsShown
    /\ Len(generated_messages) > 0
    /\ regenerate_mode' = TRUE
    /\ UNCHANGED <<uiRest, processing_status, profile_data, research_brief,
                   generated_messages, current_message_index>>

\* Lines 1476-1479.
UIPrevious ==
    /\ MessageShown
    /\ ~PreviousDisabled(current_message_index)
    /\ current_message_index' = current_message_index - 1
    /\ regenerate_mode' = FALSE
    /\ UNCHANGED <<uiRest, processing_status, profile_data, research_brief,
                   generated_messages>>

\* Lines 1482-1485.
UINext ==
    /\ MessageShown
    /\ ~NextDisabled(current_message_index, Len(generated_messages))
    /\ current_message_index' = current_message_index + 1
    /\ regenerate_mode' = FALSE
    /\ UNCHANGED <<uiRest, processing_status, profile_data, research_brief,
                   generated_messages>>

\* Lines 1517-1532: the form is submitted with instructions.
UIRefineSubmit ==
    /\ MessageShown
    /\ regenerate_mode
    /\ \E ms \in MessageResults :
          generated_messages' = Append(generated_messages, RefinedElement(ms))
    /\ current_message_index' = Len(generated_messages') - 1
    /\ regenerate_mode' = FALSE
    /\ UNCHANGED <<uiRest, processing_status, profile_data, research_brief>>

\* Lines 1534-1536.
UIRefineCancel ==
    /\ MessageShown
    /\ regenerate_mode
    /\ regenerate_mode' = FALSE
    /\ UNCHANGED <<uiRest, processing_status, profile_data, research_brief,
                   generated_messages, current_message_index>>

InitUI ==
    /\ pc = "ui"
    /\ PollInit
    /\ RunInit
    /\ apify_api_key = "key"
    /\ groq_api_key = "key"
    /\ \E sess \in Sessions : SessionIs(sess)
    /\ MsgIdle
    /\ PostsIdle
    /\ GhostInit

NextUI ==
    \/ UIAnalyzeProspect
    \/ UIGenerate
    \/ UIRefineClick
    \/ UIPrevious
    \/ UINext
    \/ UIRefineSubmit
    \/ UIRefineCancel

SpecUI == InitUI /\ [][NextUI]_vars

\* ------------------------------------------------------ scrape_linkedin_posts

\* `valid_posts[:2]` (line 142) and `post_text[:500]` (line 133).
TopCount == 2
TextLimit == 500

Min(a, b) == IF a < b THEN a ELSE b

\* A timestamp of a post: a number (0 when the post has none, line 129) or a
\* string such as an ISO date.
Timestamps ==
    { [kind |-> "int", v |-> n] : n \in 0..MaxStamp }
    \cup { [kind |-> "str", v |-> n] : n \in 1..2 }

\* The length of a text longer than the limit of line 133.
PostTextLens == {600}

\* One item of a response: a post (a dict with a text that is a string), a
\* dict without a text, a dict whose text is a number, or something that is
\* no dict.  The url tells the items of one response apart.
PostItems(i) ==
    { [tag |-> "dict", text |-> [kind |-> "str", len |-> n], timestamp |-> t,
       url |-> i] : n \in PostTextLens, t \in Timestamps }
    \cup { [tag |-> "dict", text |-> [kind |-> "str", len |-> 0],
            timestamp |-> [kind |-> "int", v |-> MaxStamp], url |-> i],
           [tag |-> "dict", text |-> [kind |-> "int", len |-> 1],
            timestamp |-> [kind |-> "int", v |-> 0], url |-> i],
           [tag |-> "other", text |-> [kind |-> "str", len |-> 0],
            timestamp |-> [kind |-> "int", v |-> 0], url |-> i] }

\* The lists of n items.
RECURSIVE ItemSeqsOfLen(_)
ItemSeqsOfLen(n) ==
    IF n = 0 THEN { <<>> }
    ELSE { Append(q, x) : q \in ItemSeqsOfLen(n - 1), x \in PostItems(n) }

ItemSeqs == UNION { ItemSeqsOfLen(n) : n \in 0..MaxPosts }

\* The responses of the posts endpoint: a timeout, another exception of the
\* request, a status other than 200, a 200 whose body is no JSON, and the
\* three shapes of lines 99-119: a list whose first item holds the posts in a
\* field, a list of items, and a dict with the field posts.
ScrapeResponses ==
    { [exc |-> e, code |-> 0, body |-> "none", items |-> <<>>] :
          e \in {"timeout", "other"} }
    \cup { [exc |-> "none", code |-> 500, body |-> "none", items |-> <<>>],
           [exc |-> "none", code |-> HTTP_OK, body |-> "invalid_json",
            items |-> <<>>] }
    \cup { [exc |-> "none", code |-> HTTP_OK, body |-> b, items |-> q] :
              b \in {"user_list", "item_list", "dict"}, q \in ItemSeqs }

\* The user record data[0] seen as a post: it has no text of its own.
UserRecord ==
    [tag |-> "dict", text |-> [kind |-> "str", len |-> 0],
     timestamp |-> [kind |-> "int", v |-> 0], url |-> 0]

\* Lines 96-119: the list posts taken from the body of a 200 response.
ExtractPosts(resp) ==
    IF resp.body = "user_list"
      THEN IF resp.items # <<>> THEN resp.items ELSE <<UserRecord>>
    ELSE IF resp.body = "item_list"
      THEN IF resp.items # <<>> /\ resp.items[1].tag = "dict"
             THEN <<resp.items[1]>>
             ELSE <<>>
    ELSE IF resp.body = "dict" THEN resp.items
    ELSE <<>>

\* Line 131, `if post_text:`.
KeepsPost(post) == post.text.len > 0

\* Lines 132-138: the record appended to valid_posts.
ValidPost(post) ==
    [text |-> Min(post.text.len, TextLimit), timestamp |-> post.timestamp,
     url |-> post.url]

\* Comparing a number with a string raises TypeError.
Comparable(a, b) == a.timestamp.kind = b.timestamp.kind

SortRaises(list) ==
    \E i, j \in 1..Len(list) : ~Comparable(list[i], list[j])

ComesBefore_Ascending(a, b) == a.timestamp.v <= b.timestamp.v

\* Line 141: with reverse=True, a stays ahead of b unless b is greater.
ComesBefore(a, b) == a.timestamp.v >= b.timestamp.v

\* The stable sort of line 141, by insertion.
RECURSIVE InsertSorted(_, _)
InsertSorted(sorted, x) ==
    IF sorted = <<>> THEN <<x>>
    ELSE IF ComesBefore(sorted[1], x)
      THEN <<sorted[1]>> \o InsertSorted(Tail(sorted), x)
    ELSE <<x>> \o sorted

RECURSIVE SortPosts(_)
SortPosts(list) ==
    IF list = <<>> THEN <<>>
    ELSE InsertSorted(SortPosts(SubSeq(list, 1, Len(list) - 1)),
                      list[Len(list)])

postsRest == <<pollVars, runVars, keyVars, sessionVars, msgVars, uiVars,
               ghostVars, posts_response>>

\* Lines 147-161: each of the three error branches returns [].
ReturnEmpty(branch) ==
    /\ posts_error' = branch
    /\ top_posts' = <<>>
    /\ pc' = "posts_returned"

\* Lines 72-119: the request, the status check and the parse of the body.
PostsRequest ==
    /\ pc = "posts_request"
    /\ UNCHANGED <<postsRest, valid_posts>>
    /\ IF posts_response.exc = "timeout"
         THEN ReturnEmpty("timeout") /\ UNCHANGED posts
       ELSE IF posts_response.exc = "other"
                 \/ (posts_response.code = HTTP_OK
                        /\ posts_response.body = "invalid_json")
         THEN ReturnEmpty("exception") /\ UNCHANGED posts
       ELSE IF posts_response.code # HTTP_OK
         THEN ReturnEmpty("status") /\ UNCHANGED posts
       ELSE /\ posts' = ExtractPosts(posts_response)
            /\ pc' = "posts_filter"
            /\ UNCHANGED <<top_posts, posts_error>>

\* Lines 123-138: one pass of the loop over posts.
FilterPost ==
    /\ pc = "posts_filter"
    /\ posts # <<>>
    /\ UNCHANGED postsRest
    /\ LET post == Head(posts) IN
         IF post.tag = "dict" /\ KeepsPost(post) /\ post.text.kind # "str"
           THEN ReturnEmpty("exception") /\ UNCHANGED <<posts, valid_posts>>
           ELSE /\ posts' = Tail(posts)
                /\ valid_posts' =
                      IF post.tag = "dict" /\ KeepsPost(post)
                        THEN Append(valid_posts, ValidPost(post))
                        ELSE valid_posts
                /\ UNCHANGED <<pc, top_posts, posts_error>>

\* Lines 141-145: the sort and the return.
PostsReturn ==
    /\ pc = "posts_filter"
    /\ posts = <<>>
    /\ UNCHANGED <<postsRest, posts>>
    /\ IF SortRaises(valid_posts)
         THEN ReturnEmpty("exception") /\ UNCHANGED valid_posts
         ELSE /\ valid_posts' = SortPosts(valid_posts)
              /\ top_posts' = SubSeq(valid_posts', 1,
                                     Min(TopCount, Len(valid_posts')))
              /\ pc' = "posts_returned"
              /\ UNCHANGED posts_error

InitPosts ==
    /\ pc = "posts_request"
    /\ PollInit
    /\ RunInit
    /\ apify_api_key = "key"
    /\ groq_api_key = "key"
    /\ SessionIs(SenderSetSession)
    /\ MsgIdle
    /\ GhostInit
    /\ posts_response \in ScrapeResponses
    /\ posts = <<>>
    /\ valid_posts = <<>>
    /\ top_posts = <<>>
    /\ posts_error = "none"

NextPosts ==
    \/ PostsRequest
    \/ FilterPost
    \/ PostsReturn

SpecPosts == InitPosts /\ [][NextPosts]_vars

\* ------------------------------------------------------------------ claims

\* SUCCEEDED has been observed in this invocation (each observation is
\* followed by a dataset retrieval).
SucceededSeen == current_status = "SUCCEEDED" \/ datasetCalls > 0

C2_BoundedPolling ==
    /\ [](/\ statusCalls <= 60
          /\ (pc # "polled" => ENABLED NextPoll)
          /\ (pc = "polled" /\ ~SucceededSeen => ret = None)
          /\ (pc = "polled" /\ ~SucceededSeen
                 /\ current_status \notin {"FAILED", "TIMED-OUT", "ABORTED"}
                => exit = "timeout" /\ statusCalls = 60))
    /\ <>(pc = "polled")

\* C2 witness: the loop ran out of attempts with SUCCEEDED never observed, the
\* last outcome being an unrecognised status.
C2_Witness ==
    pc = "polled" /\ exit = "timeout" /\ ~SucceededSeen /\ statusCalls = 60
        /\ current_status = "UNKNOWN"

\* C3 as stated: once a status check has reported SUCCEEDED no further status
\* check is issued in the invocation.
C3_Original == [][SucceededSeen => statusCalls' = statusCalls]_vars

\* C4 as stated: between two consecutive status checks the sleep is executed
\* exactly once.
C4_Original ==
    [][(statusCalls >= 1 /\ statusCalls' = statusCalls + 1) => gapSleeps = 1]_vars

\* C5 as stated: when a dataset retrieval answered 200 with zero items the
\* poller returns None.
C5_Original == pc = "polled" /\ emptySeen => ret = None

\* C6 as stated: an invocation performs at most one dataset retrieval.
C6_Original == datasetCalls <= 1

\* C7: when the dataset retrieval returns a list with at least one item the
\* poller returns, and what it returns is exactly the first item of the list.
C7_FirstItem ==
    items.tag = "list" /\ Len(items.elems) >= 1
        => pc = "polled" /\ exit = "payload" /\ ret = items.elems[1]

\* C7 witness: RUNNING three times, then SUCCEEDED, and a one-item dataset.
C7_Witness ==
    /\ pc = "polled" /\ statusCalls = 4 /\ attempt = 3 /\ unslept = 0
    /\ datasetCalls = 1
    /\ items = [tag |-> "list", elems |-> <<[tag |-> "dict", v |-> 1]>>, v |-> 0]
    /\ ret = [tag |-> "dict", v |-> 1]

C9_StartRun ==
    /\ createCalls <= 1
    /\ (start_response # NoResponse <=> createCalls = 1)
    /\ (pc \in {"poll", "dataset", "polled", "posts", "brief"} => createCalls = 1)
    /\ (run_info # NoHandle
          => /\ ~start_response.exc
             /\ start_response.code = 201
             /\ run_info = [run_id |-> start_response.run_id,
                             dataset_id |-> start_response.dataset_id,
                             status |-> "RUNNING"])
    /\ (createCalls = 1 /\ (start_response.exc \/ start_response.code # 201
                               \/ start_response.shape # "ok")
          => run_info = NoHandle /\ ~raised)

\* C9 witness: a 201 answer without data.defaultDatasetId gave no handle.
C9_Witness ==
    /\ createCalls = 1
    /\ start_response.code = 201
    /\ start_response.shape = "no_dataset_id"
    /\ run_info = NoHandle
    /\ ~raised

\* C10: when start_apify_run returned None the handler makes no further network
\* call in that script run (no second job creation, status check, dataset
\* retrieval, posts scrape or completion request); after a failed poll neither
\* handler issues another request, and a script run that ended starts nothing.
C10_NoRetry ==
    /\ createCalls <= 1
    /\ (createCalls = 1 /\ run_info = NoHandle
          => /\ pc = "done"
             /\ statusCalls = 0 /\ datasetCalls = 0
             /\ postsCalls = 0 /\ completionCalls = 0)
    /\ (pc = "done" /\ handler \in {"sender", "prospect"} /\ ~Truthy(ret)
          => postsCalls = 0 /\ completionCalls = 0 /\ statusCalls <= 60)
    /\ (pc = "done" => ~ENABLED NextApp)

\* C10 witness: the prospect handler's job creation was refused and the script
\* run ended.
C10_Witness ==
    /\ handler = "prospect"
    /\ createCalls = 1
    /\ start_response.code = 500
    /\ run_info = NoHandle
    /\ pc = "done"

\* C11: a status check that raises or answers non-200 does not end polling:
\* the iteration sleeps once, issues no dataset retrieval, counts against
\* max_attempts and is followed by the next iteration (or, when it was the
\* last of the 60, by the polling timeout), exactly as a check that reports
\* RUNNING.
C11_TransientRetry ==
    [][(pc = "poll" /\ current_status' \in {"<exception>", "<non200>", "RUNNING"})
        => (/\ attempt' = attempt + 1
            /\ gapSleeps' = 1
            /\ unslept' = unslept
            /\ datasetCalls' = datasetCalls
            /\ IF attempt + 1 < max_attempts
                 THEN pc' = "poll" /\ exit' = "none" /\ ret' = None
                 ELSE pc' = "polled" /\ exit' = "timeout" /\ ret' = None)]_vars

\* A failed status check has been slept over and the next iteration is due.
C11_Witness ==
    /\ pc = "poll"
    /\ current_status \in {"<exception>", "<non200>"}
    /\ gapSleeps = 1
    /\ attempt > 0
    /\ exit = "none"

\* The scrape of a prospect analysis failed: start_apify_run returned no
\* handle, or the poller returned nothing usable as a payload.
ScrapeFailed ==
    /\ handler = "prospect"
    /\ \/ createCalls = 1 /\ run_info = NoHandle
       \/ exit # "none" /\ (ret.tag = "null" \/ ret.v = 0)

\* The results a prospect analysis stores in the session.
prospectResults ==
    <<profile_data, research_brief, generated_messages, current_message_index>>

\* C12: when the scrape of a prospect analysis fails, the handler issues no
\* posts request and no completion request and never reaches the lines that
\* store results; the stored results change only after the poller returned a
\* payload, and generate_research_brief runs only on the payload the poller
\* returned.
C12_NoPartialResults ==
    /\ [](ScrapeFailed => /\ postsCalls = 0
                          /\ completionCalls = 0
                          /\ pc \notin {"posts", "brief"})
    /\ [](pc = "brief" => /\ exit = "payload"
                          /\ ret.tag = "dict" /\ ret.v > 0
                          /\ profile_data.tag = ret.tag
                          /\ profile_data.v = ret.v)
    /\ [][(handler' = "prospect" /\ prospectResults' # prospectResults)
            => (exit = "payload" /\ ret.v > 0 /\ run_info # NoHandle
                /\ ~ScrapeFailed /\ pc \in {"posts", "brief"})]_vars

\* A prospect analysis over an analysed session ended after the poller
\* returned nothing; the earlier results are still in the session.
C12_Witness ==
    /\ handler = "prospect"
    /\ pc = "done"
    /\ ScrapeFailed
    /\ exit \in {"terminal", "dataset_error", "timeout"}
    /\ processing_status = "Error"
    /\ Len(generated_messages) = 3
    /\ research_brief = "content"

\* C13 as stated: no exception escapes the Analyze Prospect handler, whatever
\* the endpoints answer and whatever the shape of the payload and the posts.
C13_Original == handler = "prospect" => ~raised

\* The completion request failed: it timed out, raised, or was answered with
\* a status code other than 200.
CompletionFailed ==
    \/ completion_response.exc # "none"
    \/ completion_response.code # HTTP_OK

\* C14: when the completion request of generate_research_brief is answered
\* non-200, times out or raises, the function raises nothing and returns one
\* of its fallback texts, which is neither empty nor None, and the handler
\* stores it and ends.
C14_BriefFallback ==
    (handler = "prospect" /\ completionCalls = 1 /\ CompletionFailed)
      => /\ ~raised
         /\ pc = "done"
         /\ research_brief \in
              {TimeoutFallback, UnavailableFallback,
               StatusFallback(completion_response.code)}
         /\ research_brief \notin {"", "None"}
         /\ Len(research_brief) > 0
         /\ (completion_response.exc = "timeout" => research_brief = TimeoutFallback)
         /\ (completion_response.exc = "none"
               => research_brief = StatusFallback(completion_response.code))

\* The completion service refused the brief request with 429 and the handler
\* stored the status fallback.
C14_Witness ==
    /\ handler = "prospect"
    /\ completionCalls = 1
    /\ completion_response.exc = "none"
    /\ completion_response.code = 429
    /\ research_brief = StatusFallback(429)
    /\ processing_status = "Ready"
    /\ pc = "done"

\* No request has gone to the scraping service or to the completion service
\* in this script run.
NoNetworkCall ==
    /\ createCalls = 0
    /\ statusCalls = 0
    /\ datasetCalls = 0
    /\ postsCalls = 0
    /\ completionCalls = 0

\* C15 as stated, each operation with the credential of the service it
\* contacts: with that credential absent the operation issues no request
\* (the sender analysis from a URL contacts the scraping service, the one
\* from manual text the completion service, the prospect analysis both).
C15_Original ==
    /\ (handler = "sender" /\ apify_api_key = "" => NoNetworkCall)
    /\ (handler = "manual" /\ groq_api_key = "" => NoNetworkCall)
    /\ (handler = "prospect" /\ (apify_api_key = "" \/ groq_api_key = "")
          => NoNetworkCall)

\* The poller returned a payload after SUCCEEDED.
ExitSuccess ==
    /\ exit = "payload"
    /\ current_status = "SUCCEEDED"
    /\ BodyUsable(items)
    /\ ret = PayloadOf(items)

\* The poller returned the failure on a terminal status, in either spelling
\* of the timed-out status.
ExitTerminal ==
    /\ exit = "terminal"
    /\ current_status \in {"FAILED", "TIMED-OUT", "TIMED_OUT", "ABORTED"}
    /\ ret = None

\* The poller returned the failure after using all its attempts.
ExitExhausted ==
    /\ exit = "timeout"
    /\ attempt = max_attempts
    /\ statusCalls = max_attempts
    /\ ret = None

\* The poller returned the failure because the dataset retrieval after
\* SUCCEEDED was answered with a status code other than 200 (line 234).
ExitDatasetError ==
    /\ exit = "dataset_error"
    /\ current_status = "SUCCEEDED"
    /\ attempt < max_attempts
    /\ ret = None

\* C16 as stated: a finished invocation of the poller ended in one of three
\* ways, success, terminal failure or exhausted attempts.
C16_Original ==
    pc = "polled" => ExitSuccess \/ ExitTerminal \/ ExitExhausted

\* C16, amended: a finished invocation ended in exactly one of four ways, the
\* three of the claim or the failure on a refused dataset retrieval, and an
\* invocation that has not finished has taken none of them.
C16_FourExits ==
    /\ pc = "polled"
         => /\ ExitSuccess \/ ExitTerminal \/ ExitExhausted \/ ExitDatasetError
            /\ exit \in {"payload", "terminal", "timeout", "dataset_error"}
    /\ pc \in {"poll", "dataset"} => exit = "none" /\ attempt < max_attempts

\* The dataset retrieval after SUCCEEDED was refused and the poller returned
\* the failure with attempts left.
C16_Witness ==
    /\ pc = "polled"
    /\ ExitDatasetError
    /\ statusCalls > 1
    /\ datasetCalls > 0

\* C17: in a script run that analyses a profile the requests follow one
\* another in the order of the pipeline: a status check is made only after
\* the one job creation was answered 201, a dataset retrieval only after the
\* status check before it reported SUCCEEDED, and a posts or completion
\* request only after the poller returned a payload.
C17_CallOrder ==
    /\ (pc = "poll" \/ statusCalls > 0)
          => /\ createCalls = 1
             /\ ~start_response.exc
             /\ start_response.code = HTTP_CREATED
             /\ run_info # NoHandle
    /\ (pc = "dataset" \/ datasetCalls > 0) => statusCalls > 0
    /\ pc = "dataset" => current_status = "SUCCEEDED"
    /\ (handler # "manual" /\ (pc \in {"posts", "brief"} \/ postsCalls > 0
                                                         \/ completionCalls > 0))
          => /\ handler = "prospect"
             /\ exit = "payload"
             /\ ret.tag # "null" /\ ret.v > 0
             /\ current_status = "SUCCEEDED"
             /\ datasetCalls > 0
             /\ createCalls = 1
    /\ (handler # "manual" /\ completionCalls > 0) => postsCalls = 1

\* A prospect analysis went through all four kinds of request, with more
\* than one status check.
C17_Witness ==
    /\ handler = "prospect"
    /\ createCalls = 1
    /\ statusCalls > 1
    /\ datasetCalls > 0
    /\ postsCalls = 1
    /\ completionCalls = 1
    /\ pc = "done"

\* Seconds slept in this invocation: every ended iteration slept once, but
\* for the unslept ones (exact while unslept is below CallCap).
SleptSeconds == (attempt - unslept) * poll_interval

\* C18: while every status check reports RUNNING the poller has slept once
\* after each check and retrieved no dataset, and it returns only after the
\* 60th check, with the timeout failure, 60 sleeps of 10 s behind it.
C18_AllRunning ==
    /\ (onlyRunning /\ pc = "poll")
          => /\ statusCalls = attempt
             /\ attempt < max_attempts
             /\ unslept = 0
             /\ datasetCalls = 0
    /\ (onlyRunning /\ pc = "polled")
          => /\ exit = "timeout"
             /\ ret = None
             /\ statusCalls = max_attempts
             /\ attempt = max_attempts
             /\ unslept = 0
             /\ gapSleeps = 1
             /\ SleptSeconds = max_attempts * poll_interval
             /\ datasetCalls = 0
    /\ onlyRunning => pc # "dataset"

\* Sixty status checks reported RUNNING and the poller returned.
C18_Witness ==
    /\ onlyRunning
    /\ pc = "polled"
    /\ statusCalls = 60
    /\ current_status = "RUNNING"
    /\ SleptSeconds = 600

\* Iterations of the for loop begun so far in this invocation: those that
\* ended, and the one that is under way or in which the poller returned.
IterationsBegun ==
    IF pc = "dataset" \/ (pc = "polled" /\ exit # "timeout")
      THEN attempt + 1
      ELSE attempt

\* C19: the number of status-check calls equals the number of iterations
\* begun and never exceeds 60, and a step issues at most one status check.
C19_OneCheckPerIteration ==
    /\ [](pc \in {"poll", "dataset", "polled"}
            => /\ statusCalls = IterationsBegun
               /\ statusCalls <= max_attempts)
    /\ [][/\ statusCalls' \in {statusCalls, statusCalls + 1}
          /\ (pc = "poll" => statusCalls' = statusCalls + 1)
          /\ (attempt' # attempt => attempt' = attempt + 1 /\ statusCalls' = attempt')]_vars

\* The poller is in its 60th iteration, after iterations that slept and
\* iterations that did not.
C19_Witness ==
    /\ pc = "dataset"
    /\ statusCalls = 60
    /\ attempt = 59
    /\ unslept > 0
    /\ datasetCalls > 1

\* C20 as stated: every call of analyze_and_generate_message returns a list
\* of exactly 3 messages.  Where the function has returned, the list has 3
\* elements; and where the loop that fills the list up to 3 starts a pass, the
\* pass adds a message, so that the function goes on to return.
C20_Original ==
    /\ pc = "msg_returned" => Len(msg_result) = 3
    /\ (pc = "msg_ensure" /\ Len(validated_messages) < 3)
          => \E i \in 1..3 : InRange(fallback_template(fields)[i])

\* C21 as stated: every message analyze_and_generate_message returns has
\* between 250 and 300 characters, on the success path and on both fallback
\* paths.
C21_Original ==
    pc = "msg_returned" => \A i \in 1..Len(msg_result) : InRange(msg_result[i])

\* C22 as stated: every call of analyze_and_generate_message terminates.  A
\* call that has not returned can take a step that changes its state; at the
\* head of the "ensure we have 3 messages" loop that step is a pass that
\* makes the list longer.
C22_Original ==
    /\ pc \in {"msg_request", "msg_parse", "msg_validate", "msg_ensure"}
          => ENABLED <<NextMsg>>_vars
    /\ (pc = "msg_ensure" /\ Len(validated_messages) < 3)
          => Len(AppendFitting(validated_messages, fallback_template(fields)))
               > Len(validated_messages)

\* C25 as stated: when the Analyze Prospect handler has finished,
\* processing_status is "Ready" or "Error", never an in-progress value.
C25_Original ==
    (handler = "prospect" /\ pc = "done") => processing_status \in {"Ready", "Error"}

\* C23: every element of generated_messages is a record with the fields text,
\* char_count and option, so the lookup of the current message is defined.
C23_Original ==
    /\ \A i \in 1..Len(generated_messages) :
          DOMAIN generated_messages[i] = {"text", "char_count", "option"}
    /\ ~DisplayRaises

\* C24: whenever generated_messages is non-empty, 0 <= current_message_index
\* <= len(generated_messages) - 1; Previous never takes the index below 0 and
\* Next never takes it past the last element.
C24_IndexInRange ==
    /\ [](Len(generated_messages) > 0 =>
            /\ 0 <= current_message_index
            /\ current_message_index <= Len(generated_messages) - 1)
    /\ [][UIPrevious => current_message_index' >= 0]_vars
    /\ [][UINext =>
            current_message_index' <= Len(generated_messages') - 1]_vars

\* Next was clicked twice on freshly generated messages: the last is shown.
C24_Witness ==
    /\ generated_messages = StoreAll(<<MIN_CHARS, MIN_CHARS, MIN_CHARS>>)
    /\ current_message_index = Len(generated_messages) - 1

\* The prospect handler ended at `if run_info:` or at `if profile_data:`
\* (lines 1354, 1362, 1385-1387).
ProspectFailed ==
    /\ handler = "prospect"
    /\ pc = "done"
    /\ createCalls > 0
    /\ run_info = NoHandle \/ ~Truthy(ret)

\* The prospect handler ran to its last line (line 1384).
ProspectSucceeded ==
    /\ handler = "prospect"
    /\ pc = "done"
    /\ run_info # NoHandle
    /\ Truthy(ret)
    /\ ~raised

\* C26: a prospect analysis that fails (no job handle or no payload) leaves
\* profile_data, research_brief, generated_messages and current_message_index
\* as they were when the script run began; a successful one stores the
\* payload as profile_data and the brief of this run as research_brief, and
\* resets generated_messages to empty and current_message_index to -1.
C26_FailedKeepsSucceededReplaces ==
    /\ ProspectFailed => StoredResults = session0
    /\ ProspectSucceeded =>
          /\ profile_data.tag = ret.tag
          /\ profile_data.v = ret.v
          /\ research_brief = generate_research_brief(completion_response)
          /\ origin = [profile_data |-> 2, research_brief |-> 2]
          /\ generated_messages = <<>>
          /\ current_message_index = -1

\* A successful analysis over a session that held three messages of an
\* earlier prospect.
C26_Witness ==
    /\ ProspectSucceeded
    /\ Len(session0.generated_messages) = 3
    /\ session0.current_message_index = 1
    /\ generated_messages = <<>>

\* C27: at the end of every script run profile_data and research_brief come
\* from the same prospect analysis: both were stored by this run, or both by
\* the same earlier run, or neither is set.
C27_SameAnalysis ==
    pc = "done" =>
        /\ origin.profile_data = origin.research_brief
        /\ profile_data.tag # "null" <=> research_brief # "None"
        /\ origin.profile_data = 1 =>
              /\ profile_data = session0.profile_data
              /\ research_brief = session0.research_brief
        /\ origin.profile_data = 2 =>
              /\ profile_data.v = ret.v
              /\ research_brief = generate_research_brief(completion_response)

\* A second analysis whose brief request timed out: the payload and the
\* fallback brief of this run replaced those of the earlier prospect.
C27_Witness ==
    /\ pc = "done"
    /\ handler = "prospect"
    /\ session0.research_brief = "content"
    /\ origin = [profile_data |-> 2, research_brief |-> 2]
    /\ research_brief = TimeoutFallback

\* The posts of the response that have a text, by their place in the list.
ValidIndices ==
    LET all == ExtractPosts(posts_response) IN
    { j \in 1..Len(all) : all[j].tag = "dict" /\ all[j].text.len > 0 }

====
